---- MODULE Spec2Model ----
(***************************************************************************)
(* Model of examples/example11/fracture_opening_convergence_tests_sneddon  *)
(* (porepy): the convergence driver run_multiple_and_plot, the            *)
(* displacement-correlation extraction in solve, the degree-of-freedom    *)
(* index arrays of analytical_displacements and the error norms.          *)
(*                                                                         *)
(* Numbers.  Floats are modelled exactly, by integers:                     *)
(*   - lengths (eta, a) are in tenths, so a = 3 is 30 and .9*a is 27;      *)
(*   - an aperture is an integer number of units of cons/5 (line 156);     *)
(*   - a relative error x >= 0 is carried as the pair <<n, d>> with        *)
(*     x^2 = n/d: sqrt is monotone on the non-negative reals, so two       *)
(*     errors compare as their squares do;                                 *)
(*   - np.nan is the value NaN, which every comparison answers FALSE.      *)
(* Square roots are only taken of perfect squares (Sqrt); the inputs are   *)
(* drawn so that every radicand the code takes a root of is one.           *)
(*                                                                         *)
(* The mesher, the parameter assignment, the discretisation with the      *)
(* sparse solve and the exporter are other modules of the package: each   *)
(* is a nondeterministic choice over its outcomes (a result, or an        *)
(* exception that run_multiple_and_plot does not catch).  The module      *)
(* globals the functions read (beta, a, plot, export, cg, ...) are the    *)
(* configuration chosen in Init.                                          *)
(***************************************************************************)
EXTENDS Integers, Sequences, FiniteSets, TLC

VARIABLES
    nc,             \* argument of run_multiple_and_plot: the resolutions
    beta,           \* global beta: "pi/2", "pi/4" or "pi/3" (any other angle)
    plot,           \* global plot
    export,         \* global export
    pc,             \* position in run_multiple_and_plot
    it,             \* number of items the for loop has taken from nc
    gb,             \* local gb: the grid bucket of the current item
    u,              \* displacement vector returned by spsolve
    eta,            \* eta of the current item
    dof_ind,        \* frac_ind returned by analytical_displacements
    aperture,       \* numerical aperture of the current item
    aperture_a,     \* analytical aperture of the current item
    e,              \* local e: pointwise relative error of the current item
    errors, errors_I, errors_max, errors_el,
    apertures, apertures_a, fracture_cells,
    exc,            \* the exception that left run_multiple_and_plot, if any
    ret,            \* what run_multiple_and_plot returned, if it did
    fin,            \* input of a function applied on its own
    fout            \* its output

cfgvars == <<nc, beta, plot, export>>
itervars == <<gb, u, eta, dof_ind, aperture, aperture_a, e>>
listvars == <<errors, errors_I, errors_max, errors_el,
              apertures, apertures_a, fracture_cells>>
funvars == <<fin, fout>>
vars == <<cfgvars, pc, it, itervars, listvars, exc, ret, funvars>>

----------------------------------------------------------------------------
\* Bounds of the model.
MaxRes == 3         \* longest nc
MaxN == 4           \* most cells of a full-dimensional grid (index arrays)
MaxP == 4           \* most fracture face pairs (index arrays)
MaxLen == 2         \* longest profile given to the error norms
MaxVal == 1         \* largest aperture value given to the error norms

\* Program constants.
A10 == 30           \* a = 3, in tenths
Cons == 5           \* cons, the analytical aperture at eta = 0, in units
TipNum == 9         \* .9 * a is TipNum * a / TipDen
TipDen == 10
DimH == 2           \* gb.dim_max() of the grids simplex_2d makes
NaN == 0 - 1000000  \* np.nan

None == [tag |-> "none"]

----------------------------------------------------------------------------
\* Arithmetic helpers.

RECURSIVE SumSeq(_)
SumSeq(s) == IF s = <<>> THEN 0 ELSE Head(s) + SumSeq(Tail(s))

RECURSIVE MaxSeq(_)
MaxSeq(s) == IF Len(s) = 1 THEN s[1]
             ELSE LET m == MaxSeq(Tail(s)) IN IF s[1] >= m THEN s[1] ELSE m

\* np.sqrt / the root in np.linalg.norm, on a perfect square.
Sqrt(n) == CHOOSE r \in 0..n : r * r = n

IsNaN(x) == x = NaN
Sub(x, y) == IF IsNaN(x) \/ IsNaN(y) THEN NaN ELSE x - y
Absolute(x) == IF IsNaN(x) THEN NaN ELSE IF x < 0 THEN 0 - x ELSE x
\* np.linalg.norm(d_u, axis=0) at one column <<dy, dx>>.
Norm(dy, dx) == IF IsNaN(dy) \/ IsNaN(dx) THEN NaN ELSE Sqrt(dy * dy + dx * dx)
\* x > 0 on floats: False for nan.
Gt0(x) == ~IsNaN(x) /\ x > 0

\* Errors as squares n/d: comparison by cross-multiplication (d > 0).
RatEq(x, y) == x[1] * y[2] = y[1] * x[2]
RatLeq(x, y) == x[1] * y[2] <= y[1] * x[2]

\* np.arange(start, stop, step), step > 0.
arange(start, stop, step) ==
    LET n == IF stop > start THEN (stop - start + step - 1) \div step ELSE 0
    IN  [k \in 1..n |-> start + (k - 1) * step]

\* v[ind] for an index array ind (0-based indices into the 1-based sequence).
Take(v, ind) == [k \in 1..Len(ind) |-> v[ind[k] + 1]]

\* v[mask] for a boolean array mask.
RECURSIVE Mask(_, _)
Mask(v, m) == IF v = <<>> THEN <<>>
              ELSE (IF Head(m) THEN <<Head(v)>> ELSE <<>>) \o Mask(Tail(v), Tail(m))

----------------------------------------------------------------------------
\* isclose(beta, x) on the three angles of the model.
isclose(b, x) == b = x

\* The index arrays with frac_pairs.size for frac_pairs.shape[1] in the
\* stop of the "+" side arrays.
frac_ind_of_size(N, dim, P, vertical) ==
    LET last_ind == dim - 1
        n_f == N * dim
        frac_ind_1 == arange(n_f + last_ind, n_f + (2 * P) * dim, dim)
        frac_ind_2 == arange(last_ind + n_f + P * dim,
                             last_ind + n_f + (2 * P) * dim, dim)
        x_ind_1 == arange(n_f, n_f + (2 * P) * dim, dim)
        x_ind_2 == arange(n_f + P * dim, n_f + (2 * P) * dim, dim)
    IN  IF vertical
        THEN <<frac_ind_1, frac_ind_2>>
        ELSE << <<frac_ind_1, x_ind_1>>, <<frac_ind_2, x_ind_2>> >>

\* analytical_displacements, lines 161-171: the index arrays, for a grid of
\* N cells in dimension dim with P fracture face pairs (frac_pairs has
\* shape (2, P), so frac_pairs.shape[1] = P and frac_pairs.size = 2 * P).
frac_ind_of(N, dim, P, vertical) ==
    LET last_ind == dim - 1
        n_f == N * dim
        frac_ind_1 == arange(n_f + last_ind, n_f + P * dim, dim)
        frac_ind_2 == arange(last_ind + n_f + P * dim,
                             last_ind + n_f + (2 * P) * dim, dim)
        x_ind_1 == arange(n_f, n_f + P * dim, dim)
        x_ind_2 == arange(n_f + P * dim, n_f + (2 * P) * dim, dim)
    IN  IF vertical
        THEN <<frac_ind_1, frac_ind_2>>
        ELSE << <<frac_ind_1, x_ind_1>>, <<frac_ind_2, x_ind_2>> >>

\* compute_eta: the distance of each fracture face centre from center.
compute_eta(g) == g.eta

\* analytical_displacements, lines 156-159: cons * sqrt(1 - (eta/a)^2).
analytical_apertures(et) ==
    [k \in 1..Len(et) |-> (Cons * Sqrt(A10 * A10 - et[k] * et[k])) \div A10]

\* The extraction without np.absolute and np.linalg.norm: the signed
\* difference of the last component.
extract_aperture_signed(b, uu, ind) ==
    IF isclose(b, "pi/2")
    THEN LET rows == <<Take(uu, ind[1]), Take(uu, ind[2])>>
         IN  [bound |-> TRUE,
              value |-> [k \in 1..Len(rows[1]) |-> Sub(rows[2][k], rows[1][k])]]
    ELSE IF isclose(b, "pi/4")
    THEN LET u_right == <<Take(uu, ind[1][1]), Take(uu, ind[1][2])>>
             u_left == <<Take(uu, ind[2][1]), Take(uu, ind[2][2])>>
         IN  [bound |-> TRUE,
              value |-> [k \in 1..Len(u_right[1]) |->
                            Sub(u_right[1][k], u_left[1][k])]]
    ELSE [bound |-> FALSE, value |-> <<>>]

\* solve, lines 210-217: the aperture from u and the index arrays.
\* bound is FALSE when neither branch assigns the local aperture.
extract_aperture(b, uu, ind) ==
    IF isclose(b, "pi/2")
    THEN LET rows == <<Take(uu, ind[1]), Take(uu, ind[2])>>
         IN  [bound |-> TRUE,
              value |-> [k \in 1..Len(rows[1]) |->
                            Absolute(Sub(rows[2][k], rows[1][k]))]]
    ELSE IF isclose(b, "pi/4")
    THEN LET u_right == <<Take(uu, ind[1][1]), Take(uu, ind[1][2])>>
             u_left == <<Take(uu, ind[2][1]), Take(uu, ind[2][2])>>
         IN  [bound |-> TRUE,
              value |-> [k \in 1..Len(u_right[1]) |->
                            Norm(Sub(u_right[1][k], u_left[1][k]),
                                 Sub(u_right[2][k], u_left[2][k]))]]
    ELSE [bound |-> FALSE, value |-> <<>>]

\* np.all(aperture >= 0).
all_nonnegative(ap) == \A k \in 1..Len(ap) : ~IsNaN(ap[k]) /\ ap[k] >= 0

\* run_multiple_and_plot, line 251: np.all(aperture > 0).
all_positive(ap) == \A k \in 1..Len(ap) : Gt0(ap[k])

\* L2_norm, lines 228-229, as its radicand.
L2_norm(val, area) == SumSeq([k \in 1..Len(val) |-> area[k] * val[k] * val[k]])

\* L2_error with an unweighted reference norm.
L2_error_unweighted_denom(v_ref, v_approx, area) ==
    LET enum == L2_norm([k \in 1..Len(v_ref) |-> v_approx[k] - v_ref[k]], area)
        denom == L2_norm(v_ref, [k \in 1..Len(v_ref) |-> 1])
    IN  <<enum, denom>>

\* L2_error, lines 232-235: <<enum^2, denom^2>>.
L2_error(v_ref, v_approx, area) ==
    LET enum == L2_norm([k \in 1..Len(v_ref) |-> v_approx[k] - v_ref[k]], area)
        denom == L2_norm(v_ref, area)
    IN  <<enum, denom>>

\* i = eta <= (.9 * a).
interior_inclusive(et) == [k \in 1..Len(et) |-> et[k] * TipDen <= TipNum * A10]

\* line 259: i = eta < (.9 * a).
interior(et) == [k \in 1..Len(et) |-> et[k] * TipDen < TipNum * A10]

\* line 253: e = np.absolute(aperture_a - aperture) / np.max(aperture_a).
pointwise_error(ap_a, ap) ==
    [k \in 1..Len(ap) |->
        <<(ap_a[k] - ap[k]) * (ap_a[k] - ap[k]), MaxSeq(ap_a) * MaxSeq(ap_a)>>]

\* line 257: L2_norm(aperture_a - aperture, areas) / (sum(areas) * max(aperture_a)).
error_I(ap_a, ap, areas) ==
    <<L2_norm([k \in 1..Len(ap) |-> ap_a[k] - ap[k]], areas),
      (SumSeq(areas) * MaxSeq(ap_a)) * (SumSeq(areas) * MaxSeq(ap_a))>>

\* np.max(e): the entries of e share their denominator.
max_error(ee) == <<MaxSeq([k \in 1..Len(ee) |-> ee[k][1]]), ee[1][2]>>

\* A list that grows at the front.
prepend(list, x) == <<x>> \o list

\* list.append.
append(list, x) == Append(list, x)

----------------------------------------------------------------------------
\* The external collaborators' outcomes.

Resolutions == {1, 2}

\* function(item): the bucket the mesher returns for a resolution: item
\* fracture cells, item + 1 cells of the full-dimensional grid.
function(item) ==
    [dim_max |-> DimH,
     num_cells |-> item + 1,
     frac_cells |-> item,
     eta |-> IF item = 1 THEN <<0>> ELSE <<18, 30>>,
     face_areas |-> IF item = 1 THEN <<6>> ELSE <<4, 2>>,
     param |-> FALSE]

\* The displacements spsolve can return at one fracture cell: x and y on
\* the "+" side (xp, yp) and on the "-" side (xm, ym).
PairTypes ==
    { [xp |-> 0, yp |-> 1, xm |-> 0, ym |-> 0 - 1],    \* symmetric opening
      [xp |-> 2, yp |-> 2, xm |-> 0 - 2, ym |-> 0 - 1],
      [xp |-> 0, yp |-> 1, xm |-> 0, ym |-> 1],        \* no jump
      [xp |-> 0, yp |-> NaN, xm |-> 0, ym |-> 0] }

\* u laid out as FracturedMpsa does: the cell unknowns, then the "+" side
\* of every fracture face, then the "-" side, dim_max components each.
displacement(g, pairs) ==
    LET N == g.num_cells
        P == g.frac_cells
        d == g.dim_max
        comp(k) == (k - 1) % d
        cell(k) == ((k - 1) \div d) + 1
    IN  [k \in 1..(N * d + 2 * P * d) |->
            IF k <= N * d THEN 0
            ELSE IF k <= N * d + P * d
            THEN LET c == cell(k - N * d)
                 IN  IF comp(k - N * d) = d - 1 THEN pairs[c].yp
                     ELSE IF comp(k - N * d) = 0 THEN pairs[c].xp ELSE 0
            ELSE LET c == cell(k - N * d - P * d)
                 IN  IF comp(k - N * d - P * d) = d - 1 THEN pairs[c].ym
                     ELSE IF comp(k - N * d - P * d) = 0 THEN pairs[c].xm ELSE 0]

----------------------------------------------------------------------------
\* run_multiple_and_plot.

raise(type, stage) ==
    /\ pc' = "raised"
    /\ exc' = [type |-> type, stage |-> stage, it |-> it]

NoFun == fin = None /\ fout = None

Init ==
    /\ nc \in UNION {[1..n -> Resolutions] : n \in 0..MaxRes}
    /\ beta \in {"pi/2", "pi/4", "pi/3"}
    /\ plot \in BOOLEAN
    /\ export \in BOOLEAN
    /\ pc = "for"
    /\ it = 0
    /\ gb = None /\ u = <<>> /\ eta = <<>> /\ dof_ind = <<>>
    /\ aperture = <<>> /\ aperture_a = <<>> /\ e = <<>>
    /\ errors = <<>> /\ errors_I = <<>> /\ errors_max = <<>> /\ errors_el = <<>>
    /\ apertures = <<>> /\ apertures_a = <<>> /\ fracture_cells = <<>>
    /\ exc = None
    /\ ret = None
    /\ NoFun

\* line 246: for item in nc.
ForNext ==
    /\ pc = "for"
    /\ IF it < Len(nc)
       THEN it' = it + 1 /\ pc' = "function"
       ELSE it' = it /\ pc' = "plot"
    /\ UNCHANGED <<cfgvars, itervars, listvars, exc, ret, funvars>>

\* lines 247-248: gb = function(item); the mesher may fail.
Mesh ==
    /\ pc = "function"
    /\ \/ /\ gb' = function(nc[it])
          /\ pc' = "assign_parameters"
          /\ UNCHANGED exc
       \/ /\ raise("MeshError", "function")
          /\ UNCHANGED gb
    /\ UNCHANGED <<cfgvars, it, u, eta, dof_ind, aperture, aperture_a, e,
                   listvars, ret, funvars>>

\* line 249: assign_parameters(gb).
AssignParameters ==
    /\ pc = "assign_parameters"
    /\ gb' = [gb EXCEPT !.param = TRUE]
    /\ pc' = "spsolve"
    /\ UNCHANGED <<cfgvars, it, u, eta, dof_ind, aperture, aperture_a, e,
                   listvars, exc, ret, funvars>>

\* solve, lines 200-208: discretise and solve; the solver may fail.
SpSolve ==
    /\ pc = "spsolve"
    /\ \/ /\ \E pairs \in [1..gb.frac_cells -> PairTypes] :
                u' = displacement(gb, pairs)
          /\ pc' = "analytical_displacements"
          /\ UNCHANGED exc
       \/ /\ raise("SolverError", "spsolve")
          /\ UNCHANGED u
    /\ UNCHANGED <<cfgvars, it, gb, eta, dof_ind, aperture, aperture_a, e,
                   listvars, ret, funvars>>

\* solve, line 209: analytical_displacements(gb, a).
AnalyticalDisplacements ==
    /\ pc = "analytical_displacements"
    /\ eta' = compute_eta(gb)
    /\ aperture_a' = analytical_apertures(compute_eta(gb))
    /\ dof_ind' = frac_ind_of(gb.num_cells, gb.dim_max, gb.frac_cells,
                              isclose(beta, "pi/2"))
    /\ pc' = "extract"
    /\ UNCHANGED <<cfgvars, it, gb, u, aperture, e, listvars, exc, ret, funvars>>

\* solve followed directly by the error norms, the assertion left out.
ExtractAperture_then_errors ==
    /\ pc = "extract"
    /\ LET ap == extract_aperture(beta, u, dof_ind)
       IN  IF ap.bound
           THEN aperture' = ap.value /\ pc' = "errors" /\ UNCHANGED exc
           ELSE raise("UnboundLocalError", "extract") /\ UNCHANGED aperture
    /\ UNCHANGED <<cfgvars, it, gb, u, eta, dof_ind, aperture_a, e,
                   listvars, ret, funvars>>

\* solve, lines 210-218: the aperture, and the return that reads it.
ExtractAperture ==
    /\ pc = "extract"
    /\ LET ap == extract_aperture(beta, u, dof_ind)
       IN  IF ap.bound
           THEN aperture' = ap.value /\ pc' = "assert" /\ UNCHANGED exc
           ELSE raise("UnboundLocalError", "extract") /\ UNCHANGED aperture
    /\ UNCHANGED <<cfgvars, it, gb, u, eta, dof_ind, aperture_a, e,
                   listvars, ret, funvars>>

\* line 251: assert np.all(aperture > 0).
AssertPositive ==
    /\ pc = "assert"
    /\ IF all_positive(aperture)
       THEN pc' = "errors" /\ UNCHANGED exc
       ELSE raise("AssertionError", "assert")
    /\ UNCHANGED <<cfgvars, it, itervars, listvars, ret, funvars>>

\* lines 252-266: the error norms of this item, appended to the lists.
AppendErrors ==
    /\ pc = "errors"
    /\ LET areas == gb.face_areas
           i == interior(eta)
       IN  /\ e' = pointwise_error(aperture_a, aperture)
           /\ errors' = append(errors, L2_error(aperture_a, aperture, areas))
           /\ errors_I' = append(errors_I, error_I(aperture_a, aperture, areas))
           /\ errors_max' = append(errors_max,
                                   max_error(pointwise_error(aperture_a, aperture)))
           /\ errors_el' = append(errors_el,
                  L2_error(Mask(aperture_a, i), Mask(aperture, i), Mask(areas, i)))
           /\ apertures' = append(apertures, aperture)
           /\ apertures_a' = append(apertures_a, aperture_a)
           /\ fracture_cells' = append(fracture_cells, gb.frac_cells)
    /\ pc' = "for"
    /\ UNCHANGED <<cfgvars, it, gb, u, eta, dof_ind, aperture, aperture_a,
                   exc, ret, funvars>>

\* lines 267-295: the summary plot reads errors_el[0], errors_el[1] and
\* fracture_cells[0..2].
PlotSummary ==
    /\ pc = "plot"
    /\ IF plot /\ Len(fracture_cells) < 3
       THEN raise("IndexError", "plot")
       ELSE pc' = "save" /\ UNCHANGED exc
    /\ UNCHANGED <<cfgvars, it, itervars, listvars, ret, funvars>>

\* line 298: save(gb, u, e, ...): gb, u and e are unbound after an empty
\* loop; with export set the exporter runs, and may fail.
Save ==
    /\ pc = "save"
    /\ \/ /\ it = 0
          /\ raise("UnboundLocalError", "save")
       \/ /\ it > 0
          /\ pc' = "return"
          /\ UNCHANGED exc
       \/ /\ it > 0
          /\ export
          /\ raise("ExportError", "save")
    /\ UNCHANGED <<cfgvars, it, itervars, listvars, ret, funvars>>

\* The tuple with two of its error arrays exchanged.
ReturnValue_swapped ==
    [errors |-> errors, errors_max |-> errors_el, errors_el |-> errors_max,
     apertures |-> apertures, apertures_a |-> apertures_a,
     u |-> u, gb |-> gb, e |-> e]

\* line 299: the tuple returned.
ReturnValue ==
    [errors |-> errors, errors_max |-> errors_max, errors_el |-> errors_el,
     apertures |-> apertures, apertures_a |-> apertures_a,
     u |-> u, gb |-> gb, e |-> e]

Return ==
    /\ pc = "return"
    /\ ret' = ReturnValue
    /\ pc' = "returned"
    /\ UNCHANGED <<cfgvars, it, itervars, listvars, exc, funvars>>

Next ==
    \/ ForNext
    \/ Mesh
    \/ AssignParameters
    \/ SpSolve
    \/ AnalyticalDisplacements
    \/ ExtractAperture
    \/ AssertPositive
    \/ AppendErrors
    \/ PlotSummary
    \/ Save
    \/ Return

Spec == Init /\ [][Next]_vars

----------------------------------------------------------------------------
\* The pure functions applied on their own: Init draws the input, the
\* action applies the function.

Idle ==
    /\ nc = <<>> /\ beta = "pi/2" /\ plot = FALSE /\ export = FALSE
    /\ pc = "pure" /\ it = 0
    /\ gb = None /\ u = <<>> /\ eta = <<>> /\ dof_ind = <<>>
    /\ aperture = <<>> /\ aperture_a = <<>> /\ e = <<>>
    /\ errors = <<>> /\ errors_I = <<>> /\ errors_max = <<>> /\ errors_el = <<>>
    /\ apertures = <<>> /\ apertures_a = <<>> /\ fracture_cells = <<>>
    /\ exc = None /\ ret = None

drivervars == <<cfgvars, pc, it, itervars, listvars, exc, ret>>

\* analytical_displacements, lines 161-171.
InitIdx ==
    /\ Idle
    /\ fin \in [N : 1..MaxN, dim : {2, 3}, P : 1..MaxP, vertical : BOOLEAN]
    /\ fout = None

ApplyFracInd ==
    /\ pc = "pure" /\ fout = None
    /\ fout' = [frac_ind |-> frac_ind_of(fin.N, fin.dim, fin.P, fin.vertical)]
    /\ UNCHANGED <<drivervars, fin>>

NextIdx == ApplyFracInd

SpecIdx == InitIdx /\ [][NextIdx]_vars

\* L2_error, and lines 256-260 of run_multiple_and_plot.
Profiles(n) == [1..n -> 0..MaxVal]
Areas(n) == [1..n -> {1, 2}]
EtaVals == {0, 27, 30}
Scales == {2, 3}

InitErr ==
    /\ Idle
    /\ fout = None
    /\ \E n \in 1..MaxLen :
        \/ fin \in [fn : {"L2_error"}, v_ref : Profiles(n), v_approx : Profiles(n),
                    area : Areas(n), c : Scales]
        \/ fin \in [fn : {"interior"}, aperture_a : Profiles(n),
                    aperture : Profiles(n), areas : Areas(n),
                    eta : [1..n -> EtaVals]]

\* L2_error with the weights as given and with the weights times c.
ApplyL2Error ==
    /\ pc = "pure" /\ fout = None /\ fin.fn = "L2_error"
    /\ fout' = [plain |-> L2_error(fin.v_ref, fin.v_approx, fin.area),
                scaled |-> L2_error(fin.v_ref, fin.v_approx,
                              [k \in 1..Len(fin.area) |-> fin.c * fin.area[k]])]
    /\ UNCHANGED <<drivervars, fin>>

\* lines 256, 259, 260: errors, i and errors_el of one resolution.
ApplyInterior ==
    /\ pc = "pure" /\ fout = None /\ fin.fn = "interior"
    /\ LET i == interior(fin.eta)
       IN  fout' = [i |-> i,
                    error |-> L2_error(fin.aperture_a, fin.aperture, fin.areas),
                    error_el |-> L2_error(Mask(fin.aperture_a, i),
                                          Mask(fin.aperture, i),
                                          Mask(fin.areas, i))]
    /\ UNCHANGED <<drivervars, fin>>

NextErr == ApplyL2Error \/ ApplyInterior

SpecErr == InitErr /\ [][NextErr]_vars

----------------------------------------------------------------------------
\* Properties of run_multiple_and_plot (under Spec).

InIteration ==
    pc \in {"function", "assign_parameters", "spsolve",
            "analytical_displacements", "extract", "assert", "errors"}

\* The number of iterations of the for loop that ran to their end.
Completed ==
    IF InIteration THEN it - 1
    ELSE IF pc = "raised" /\ exc.stage \notin {"plot", "save"} THEN it - 1
    ELSE it

Lists == <<errors, errors_I, errors_max, errors_el,
           apertures, apertures_a, fracture_cells>>

\* 0-based position in u of component comp at fracture cell k, "+" side
\* and "-" side, by the layout of the displacement vector.
PlusDof(g, k, comp) == g.num_cells * g.dim_max + (k - 1) * g.dim_max + comp
MinusDof(g, k, comp) == PlusDof(g, k, comp) + g.frac_cells * g.dim_max
JumpY(g, v, k) == Sub(v[PlusDof(g, k, g.dim_max - 1) + 1],
                      v[MinusDof(g, k, g.dim_max - 1) + 1])
JumpX(g, v, k) == Sub(v[PlusDof(g, k, 0) + 1], v[MinusDof(g, k, 0) + 1])

\* C1: as long as every resolution meshes, solves and passes the assertion,
\* the loop runs one iteration per resolution: after k iterations each of
\* the lists errors, errors_I, errors_max, errors_el, apertures,
\* apertures_a and fracture_cells has length k, at the end of the loop the
\* length is that of nc, and the k-th record is that of the k-th resolution.
C1_OneRecordPerResolution ==
    /\ \A j \in 1..Len(Lists) : Len(Lists[j]) = Completed
    /\ it <= Len(nc)
    /\ pc \in {"plot", "save", "return", "returned"} => Completed = Len(nc)
    /\ \A k \in 1..Len(fracture_cells) :
        /\ fracture_cells[k] = function(nc[k]).frac_cells
        /\ Len(apertures[k]) = function(nc[k]).frac_cells
        /\ errors[k] = L2_error(apertures_a[k], apertures[k],
                                function(nc[k]).face_areas)

C1_Witness ==
    /\ pc = "plot"
    /\ Len(nc) = 3
    /\ nc[1] # nc[2]
    /\ Len(errors) = 3

\* C2 (as stated): what run_multiple_and_plot returns carries, for every
\* resolution, the resolution and all four error metrics, errors_I among
\* them.
C2_Original ==
    pc = "returned" =>
        /\ {"errors", "errors_max", "errors_el", "errors_I", "fracture_cells"}
               \subseteq DOMAIN ret
        /\ ret.errors_I = errors_I
        /\ ret.fracture_cells = fracture_cells

\* C2 (amended): what run_multiple_and_plot returns is errors, errors_max,
\* errors_el, apertures, apertures_a and the last u, gb and e: three error
\* metrics per resolution, in the order of nc; errors_I and fracture_cells
\* are not returned.
C2_ReturnsThreeMetrics ==
    pc = "returned" =>
        /\ DOMAIN ret = {"errors", "errors_max", "errors_el", "apertures",
                         "apertures_a", "u", "gb", "e"}
        /\ ret.errors = errors
        /\ ret.errors_max = errors_max
        /\ ret.errors_el = errors_el
        /\ Len(ret.errors) = Len(nc)
        /\ Len(ret.errors_max) = Len(nc)
        /\ Len(ret.errors_el) = Len(nc)
        /\ \A k \in 1..Len(nc) :
            LET areas == function(nc[k]).face_areas
                i == interior(function(nc[k]).eta)
            IN  /\ ret.errors[k] =
                       L2_error(ret.apertures_a[k], ret.apertures[k], areas)
                /\ ret.errors_el[k] =
                       L2_error(Mask(ret.apertures_a[k], i),
                                Mask(ret.apertures[k], i), Mask(areas, i))
                /\ ret.errors_max[k] =
                       max_error(pointwise_error(ret.apertures_a[k],
                                                 ret.apertures[k]))

C2_Witness ==
    /\ pc = "returned"
    /\ Len(ret.errors) >= 2
    /\ Len(errors_I) >= 2
    /\ ret.errors_max # ret.errors_el

\* C3 (as stated): solve yields an aperture for every beta: the absolute
\* difference of the last displacement component across the pair when beta
\* is close to pi/2, the Euclidean norm of the difference of both in-plane
\* components for every other beta; no beta leaves the aperture undefined.
C3_ApertureForEveryBeta ==
    /\ pc = "raised" => exc.stage # "extract"
    /\ pc = "assert" =>
        \A k \in 1..gb.frac_cells :
            aperture[k] = IF beta = "pi/2"
                          THEN Absolute(JumpY(gb, u, k))
                          ELSE Norm(JumpY(gb, u, k), JumpX(gb, u, k))

\* C4 (as stated): when the assertion fails the run ends, and the records
\* of the earlier resolutions are unchanged and available to the caller.
C4_Original ==
    (pc = "raised" /\ exc.type = "AssertionError") =>
        /\ \A j \in 1..Len(Lists) : Len(Lists[j]) = it - 1
        /\ ret # None
        /\ ret.errors = errors

C4_State ==
    /\ pc = "errors" => \A k \in 1..Len(aperture) :
                            aperture[k] # NaN /\ aperture[k] > 0
    /\ (pc = "raised" /\ exc.type = "AssertionError") =>
        /\ \E k \in 1..Len(aperture) : aperture[k] = NaN \/ aperture[k] <= 0
        /\ \A j \in 1..Len(Lists) : Len(Lists[j]) = it - 1
        /\ ret = None

C4_Step ==
    /\ (pc = "assert" /\ pc' = "raised") => UNCHANGED <<listvars, ret, it>>
    /\ pc = "raised" => UNCHANGED vars

\* C4 (amended): an aperture that is zero, negative or NaN fails the
\* assertion and only such an aperture does; the AssertionError leaves
\* run_multiple_and_plot: no later resolution is processed, nothing is
\* appended for the failing resolution, the lists hold the records of the
\* earlier resolutions unchanged, and nothing is returned to the caller.
C4_AssertionEndsRun == [](C4_State) /\ [][C4_Step]_vars

C4_Witness ==
    /\ pc = "raised"
    /\ exc.type = "AssertionError"
    /\ it >= 2
    /\ Len(errors) = it - 1
    /\ it < Len(nc)

\* C5 (as stated): the positivity assertion comes after the error norms
\* are computed and the record of the resolution is appended.
C5_Original == pc = "assert" => \A j \in 1..Len(Lists) : Len(Lists[j]) = it

CodeOrder ==
    { <<"for", "function">>, <<"function", "assign_parameters">>,
      <<"assign_parameters", "spsolve">>,
      <<"spsolve", "analytical_displacements">>,
      <<"analytical_displacements", "extract">>, <<"extract", "assert">>,
      <<"assert", "errors">>, <<"errors", "for">>, <<"for", "plot">>,
      <<"plot", "save">>, <<"save", "return">>, <<"return", "returned">> }

C5_State ==
    /\ pc \in {"assert", "errors"} =>
           \A j \in 1..Len(Lists) : Len(Lists[j]) = it - 1
    /\ pc = "errors" => \A k \in 1..Len(aperture) :
                            aperture[k] # NaN /\ aperture[k] > 0
    /\ pc \in {"spsolve", "analytical_displacements", "extract", "assert",
               "errors"} => gb.param

C5_Step ==
    /\ pc' # pc => (pc' = "raised" \/ <<pc, pc'>> \in CodeOrder)
    /\ (pc = "for" /\ pc' = "plot") => it = Len(nc)
    /\ (pc = "errors" /\ pc' = "for") =>
           \A j \in 1..Len(Lists) : Len(Lists[j]') = it
    /\ it' # it => (pc = "for" /\ it' = it + 1)

\* C5 (amended): within an iteration the stages are: build the mesh, assign
\* the parameters, solve, compute eta, the analytical aperture and the
\* index arrays, extract the numerical aperture, assert that every
\* numerical aperture is positive, and only then compute the error norms
\* and append the record; a resolution is processed fully before the next.
C5_AssertBeforeErrors == [](C5_State) /\ [][C5_Step]_vars

C5_Witness ==
    /\ pc = "errors"
    /\ it = 2
    /\ Len(errors) = 1

\* C6 (as stated): a failure of the export step is not fatal: it never
\* leaves run_multiple_and_plot as an exception.
C6_ExportFailureNotFatal ==
    ~(pc = "raised" /\ exc.stage = "save" /\ exc.type = "ExportError")

\* Every "-" side entry of v with its sign changed.
CorruptSign(g, v) ==
    [k \in 1..Len(v) |->
        IF k > g.num_cells * g.dim_max + g.frac_cells * g.dim_max
        THEN (IF IsNaN(v[k]) THEN NaN ELSE 0 - v[k])
        ELSE v[k]]

\* The jump across the pair at cell k is a number other than zero.
Opening(g, v, k) ==
    /\ ~IsNaN(JumpY(g, v, k))
    /\ ~IsNaN(JumpX(g, v, k))
    /\ IF beta = "pi/2" THEN JumpY(g, v, k) # 0
       ELSE JumpY(g, v, k) # 0 \/ JumpX(g, v, k) # 0

\* u, at the assertion or past it, is the sign corruption of a vector whose
\* pairs all give a positive aperture.
SignCorrupted ==
    /\ beta \in {"pi/2", "pi/4"}
    /\ \/ pc = "errors"
       \/ pc = "raised" /\ exc.stage = "assert"
    /\ \A k \in 1..gb.frac_cells : Opening(gb, CorruptSign(gb, u), k)

\* C7 (as stated): a sign corrupted on one paired side makes the assertion
\* fail.
C7_Original == SignCorrupted => pc = "raised"

\* C7 (amended): a sign corrupted on one paired side makes the assertion
\* fail exactly when the corrupted vector has no jump at some fracture
\* cell, that is when the two sides were exactly opposite there; otherwise
\* the aperture is still positive and the run goes on to the error norms.
C7_AssertionOnlyOnZeroJump ==
    SignCorrupted =>
        (pc = "raised" <=> \E k \in 1..gb.frac_cells : ~Opening(gb, u, k))

C7_Witness ==
    /\ SignCorrupted
    /\ pc = "raised"
    /\ gb.frac_cells = 2

----------------------------------------------------------------------------
\* Properties of the error norms (under SpecErr).

RECURSIVE SumTo(_, _)
SumTo(f, n) == IF n = 0 THEN 0 ELSE f[n] + SumTo(f, n - 1)

\* C8: the interior error is the L2 relative error over exactly the cells
\* with eta < .9 * a (eta is a distance, so |eta| = eta), and when the
\* numerical aperture differs from the analytical one only at cells with
\* eta >= .9 * a, the analytical one not vanishing on the interior, the
\* interior error is at most the global error.
C8_InteriorAtMostGlobal ==
    (fout # None /\ fin.fn = "interior") =>
        LET n == Len(fin.eta)
            in(k) == 10 * fin.eta[k] < 9 * 30
            refI == [k \in 1..n |-> IF in(k) THEN
                        fin.areas[k] * fin.aperture_a[k] * fin.aperture_a[k]
                     ELSE 0]
            difI == [k \in 1..n |-> IF in(k) THEN fin.areas[k]
                        * (fin.aperture[k] - fin.aperture_a[k])
                        * (fin.aperture[k] - fin.aperture_a[k])
                     ELSE 0]
        IN  /\ \A k \in 1..n : fout.i[k] = in(k)
            /\ fout.error_el = <<SumTo(difI, n), SumTo(refI, n)>>
            /\ ( /\ \A k \in 1..n :
                       in(k) => fin.aperture[k] = fin.aperture_a[k]
                 /\ SumTo(refI, n) > 0 )
               => RatLeq(fout.error_el, fout.error)

C8_Witness ==
    /\ fout # None
    /\ fin.fn = "interior"
    /\ \E k \in 1..Len(fin.eta) : fin.eta[k] = 27
    /\ \E k \in 1..Len(fin.eta) : fin.eta[k] < 27
    /\ \A k \in 1..Len(fin.eta) :
           fin.eta[k] < 27 => (fin.aperture[k] = fin.aperture_a[k]
                               /\ fin.aperture_a[k] > 0)
    /\ \E k \in 1..Len(fin.eta) : fin.aperture[k] # fin.aperture_a[k]
    /\ fout.error[1] > 0
    /\ fout.error_el[1] = 0

\* C9: L2_error(v_ref, v_approx, area) is ||v_approx - v_ref|| / ||v_ref||
\* with ||v|| = sqrt(sum(area_i * v_i^2)); with a reference norm other than
\* zero it is the same for the weights c * area, c > 0, and it is 0 when
\* v_approx is v_ref.
C9_L2ErrorScaleInvariant ==
    (fout # None /\ fin.fn = "L2_error") =>
        LET n == Len(fin.v_ref)
            ref == [k \in 1..n |-> fin.area[k] * fin.v_ref[k] * fin.v_ref[k]]
            dif == [k \in 1..n |-> fin.area[k]
                        * (fin.v_approx[k] - fin.v_ref[k])
                        * (fin.v_approx[k] - fin.v_ref[k])]
        IN  /\ fout.plain = <<SumTo(dif, n), SumTo(ref, n)>>
            /\ SumTo(ref, n) > 0 =>
                /\ fout.scaled[2] > 0
                /\ RatEq(fout.plain, fout.scaled)
                /\ fin.v_approx = fin.v_ref => fout.plain[1] = 0

C9_Witness ==
    /\ fout # None
    /\ fin.fn = "L2_error"
    /\ Len(fin.v_ref) = 2
    /\ fin.area[1] # fin.area[2]
    /\ fout.plain[1] > 0
    /\ fout.plain[2] > 0
    /\ fout.scaled # fout.plain

----------------------------------------------------------------------------
\* Properties of the index arrays (under SpecIdx).

SeqRange(q) == {q[k] : k \in 1..Len(q)}

\* A "+" side array and its "-" side array, for the inputs in fin.
PairedArrays(plus, minus) ==
    /\ Len(plus) = fin.P
    /\ Len(minus) = fin.P
    /\ \A k \in 1..fin.P : minus[k] = plus[k] + fin.P * fin.dim
    /\ SeqRange(plus) \cap SeqRange(minus) = {}
    /\ \A x \in SeqRange(plus) \cup SeqRange(minus) :
           /\ fin.N * fin.dim <= x
           /\ x < fin.N * fin.dim + 2 * fin.P * fin.dim

\* C10: the index arrays of the "+" and the "-" side have length P each,
\* entry i of the "-" array is entry i of the "+" array plus P * dim, the
\* two are disjoint and lie in [N * dim, N * dim + 2 * P * dim); the same
\* holds of the x-component arrays of the non-vertical case.
C10_PairedIndexArrays ==
    fout # None =>
        IF fin.vertical
        THEN PairedArrays(fout.frac_ind[1], fout.frac_ind[2])
        ELSE /\ PairedArrays(fout.frac_ind[1][1], fout.frac_ind[2][1])
             /\ PairedArrays(fout.frac_ind[1][2], fout.frac_ind[2][2])

C10_Witness ==
    /\ fout # None
    /\ ~fin.vertical
    /\ fin.dim = 3
    /\ fin.P >= 3
    /\ fin.N >= 2

====
